---- MODULE Spec2Model ----
(***************************************************************************)
(* The relations graph engine of home.theor.net: link extraction from page *)
(* bodies, the two-pass construction of the relations graph, the full and  *)
(* the subgraph view, the breadcrumb walk and the backlinks route.         *)
(*                                                                         *)
(* A JavaScript string is a sequence of one-character strings, so that     *)
(* startsWith, slice, replace, sort and join are computed, not assumed.    *)
(* A Map is a function whose keys are iterated in insertion order, which   *)
(* for graph and pages is the order of allPages.                           *)
(***************************************************************************)
EXTENDS Integers, Sequences, FiniteSets, TLC

VARIABLES store, graph, pages, pc, cursor, full, crumbs, walk, sub, backlinks

vars == <<store, graph, pages, pc, cursor, full, crumbs, walk, sub, backlinks>>

----------------------------------------------------------------------------
(* Bounds of the model *)

\* the number of declarations (relation targets and pointers) in the front
\* matter of the whole Page Store
MaxDecl == 2

\* the number of text fragments in the body that is given to the Link
\* Extractor
MaxFrag == 2

\* the largest hop bound that is given to buildSubgraphData
MaxDepth == 2

----------------------------------------------------------------------------
(* JavaScript values *)

\* the value of an absent property; it is no string (no sequence of
\* characters), so it differs from every slug and from ''
undefined == <<"undefined">>

\* the truthiness test of `if (x)` and `!x` on a string-or-undefined value
Truthy(v) == v /= undefined /\ v /= <<>>

\* obj.key, undefined when the object has no such property
Get(obj, key) == IF key \in DOMAIN obj THEN obj[key] ELSE undefined

\* UTF-16 code units of the characters that occur in the model
CharCode(c) ==
  CASE c = "#" -> 35 [] c = "(" -> 40 [] c = ")" -> 41 [] c = "-" -> 45
    [] c = "." -> 46 [] c = "/" -> 47 [] c = ":" -> 58 [] c = "[" -> 91
    [] c = "]" -> 93 [] c = "a" -> 97 [] c = "b" -> 98 [] c = "c" -> 99
    [] c = "d" -> 100 [] c = "e" -> 101 [] c = "h" -> 104 [] c = "i" -> 105
    [] c = "l" -> 108 [] c = "m" -> 109 [] c = "n" -> 110 [] c = "o" -> 111
    [] c = "p" -> 112 [] c = "q" -> 113 [] c = "r" -> 114 [] c = "s" -> 115
    [] c = "t" -> 116 [] c = "x" -> 120 [] c = "z" -> 122

\* String.prototype.startsWith
startsWith(s, prefix) ==
  Len(s) >= Len(prefix) /\ SubSeq(s, 1, Len(prefix)) = prefix

\* String.prototype.endsWith
endsWith(s, suffix) ==
  Len(s) >= Len(suffix) /\ SubSeq(s, Len(s) - Len(suffix) + 1, Len(s)) = suffix

\* String.prototype.slice(1)
sliceFrom1(s) == SubSeq(s, 2, Len(s))

\* String.prototype.slice(0, -1)
sliceDropLast(s) == SubSeq(s, 1, Len(s) - 1)

\* Array.prototype.includes
includes(arr, value) == \E k \in 1..Len(arr) : arr[k] = value

\* the comparison of the default Array.prototype.sort: by code units, a
\* proper prefix first
RECURSIVE StrLess(_, _)
StrLess(s, t) ==
  IF t = <<>> THEN FALSE
  ELSE IF s = <<>> THEN TRUE
  ELSE IF CharCode(Head(s)) /= CharCode(Head(t))
       THEN CharCode(Head(s)) < CharCode(Head(t))
  ELSE StrLess(Tail(s), Tail(t))

\* variant: the pair is joined as it stands, without the sort
sortPairUnsorted(x, y) == <<x, y>>

\* [x, y].sort()
sortPair(x, y) == IF StrLess(y, x) THEN <<y, x>> ELSE <<x, y>>

----------------------------------------------------------------------------
(* Slugs and paths *)

index == <<"i", "n", "d", "e", "x">>

\* the separator of the keys of `seen`
sep == <<":", ":">>

\* the name of an edge type as a string
typeName(type) ==
  CASE type = "po" -> <<"p", "o">> [] type = "ec" -> <<"e", "c">>
    [] type = "eq" -> <<"e", "q">> [] type = "dc" -> <<"d", "c">>
    [] type = "next" -> <<"n", "e", "x", "t">>

slugToPath(slug) == IF slug = index THEN <<"/">> ELSE <<"/">> \o slug

pathToSlug(path) ==
  IF path = <<"/">> THEN index
  ELSE IF startsWith(path, <<"/">>) THEN sliceFrom1(path) ELSE path

----------------------------------------------------------------------------
(* Link Extractor *)

\* the least position >= from at which ch stands in s, 0 when there is none
RECURSIVE indexOfFrom(_, _, _)
indexOfFrom(s, ch, from) ==
  IF from > Len(s) THEN 0
  ELSE IF s[from] = ch THEN from
  ELSE indexOfFrom(s, ch, from + 1)

\* linkRegex = /\[([^\]]+)\]\(([^)]+)\)/ anchored at position at: the end
\* of the match and its second group, or end = 0 when it does not match
\* there. Both groups exclude their own delimiter, so there is one way to
\* match.
matchAt(body, at) ==
  LET close == indexOfFrom(body, "]", at + 1)
      paren == indexOfFrom(body, ")", close + 2)
  IN IF /\ at <= Len(body) /\ body[at] = "["
        /\ close > at + 1
        /\ close + 1 <= Len(body) /\ body[close + 1] = "("
        /\ paren > close + 2
     THEN [end |-> paren, href |-> SubSeq(body, close + 2, paren - 1)]
     ELSE [end |-> 0, href |-> <<>>]

\* linkRegex.exec(body) with lastIndex = from - 1: the leftmost match
RECURSIVE exec(_, _)
exec(body, from) ==
  IF from > Len(body) THEN [end |-> 0, href |-> <<>>]
  ELSE IF matchAt(body, from).end /= 0 THEN matchAt(body, from)
  ELSE exec(body, from + 1)

\* the test that skips external links, anchors and mailto
skipHref(href) ==
  \/ startsWith(href, <<"h", "t", "t", "p">>)
  \/ startsWith(href, <<"#">>)
  \/ startsWith(href, <<"m", "a", "i", "l", "t", "o", ":">>)

\* the three normalisation steps of the target path
normalizePath(href) ==
  LET p1 == IF startsWith(href, <<".", "/">>) THEN sliceFrom1(href) ELSE href
      p2 == IF ~startsWith(p1, <<"/">>) THEN <<"/">> \o p1 ELSE p1
      p3 == IF endsWith(p2, <<"/">>) /\ p2 /= <<"/">> THEN sliceDropLast(p2) ELSE p2
  IN p3

\* variant: the self-reference test is left out
keepSlugSelf(targetSlug, sourceSlug, knownSlugs, slugs) ==
  /\ targetSlug \in knownSlugs
  /\ ~includes(slugs, targetSlug)

\* the test of the final `if` of the loop body
keepSlug(targetSlug, sourceSlug, knownSlugs, slugs) ==
  /\ targetSlug \in knownSlugs
  /\ targetSlug /= sourceSlug
  /\ ~includes(slugs, targetSlug)

\* the while loop of extractLinkSlugs, from position `from` of the body
RECURSIVE extractLoop(_, _, _, _, _)
extractLoop(body, from, sourceSlug, knownSlugs, slugs) ==
  LET match == exec(body, from)
      targetSlug == pathToSlug(normalizePath(match.href))
  IN IF match.end = 0 THEN slugs
     ELSE IF skipHref(match.href)
          THEN extractLoop(body, match.end + 1, sourceSlug, knownSlugs, slugs)
     ELSE IF keepSlug(targetSlug, sourceSlug, knownSlugs, slugs)
          THEN extractLoop(body, match.end + 1, sourceSlug, knownSlugs,
                           Append(slugs, targetSlug))
     ELSE extractLoop(body, match.end + 1, sourceSlug, knownSlugs, slugs)

extractLinkSlugs(body, sourceSlug, knownSlugs) ==
  extractLoop(body, 1, sourceSlug, knownSlugs, <<>>)

----------------------------------------------------------------------------
(* The Page Store: what getCollection('pages') returns *)

a == <<"a">>
https == <<"h", "t", "t", "p", "s">>

\* a slug that names no page
z == <<"z">>

\* the ids of the pages, in the order getCollection returns them
pageIds == <<index, a, https>>

Targets == {pageIds[k] : k \in 1..Len(pageIds)} \cup {z}

\* obj with obj[key] = val
With(obj, key, val) ==
  [k \in DOMAIN obj \cup {key} |-> IF k = key THEN val ELSE obj[k]]

ListFields == {"ntpp", "tpp", "po", "ec", "eq", "dc", "nttpi", "tppi", "ri"}

\* a store without declarations and without bodies
bareStore ==
  [k \in 1..Len(pageIds) |-> [id |-> pageIds[k], data |-> [title |-> pageIds[k]]]]

\* one more declaration of a page: a target appended to a list field, a
\* pointer, or a fragment appended to the body
declare(st, item) ==
  LET page == st[item.page]
      data == page.data
  IN IF item.field = "body"
     THEN [st EXCEPT ![item.page] =
             With(page, "body",
                  (IF "body" \in DOMAIN page THEN page.body ELSE <<>>) \o item.value)]
     ELSE IF item.field \in ListFields
     THEN [st EXCEPT ![item.page].data =
             With(data, item.field,
                  Append(IF item.field \in DOMAIN data THEN data[item.field] ELSE <<>>,
                         item.value))]
     ELSE [st EXCEPT ![item.page].data = With(data, item.field, item.value)]

RECURSIVE declareAll(_, _)
declareAll(st, items) ==
  IF items = <<>> THEN st ELSE declareAll(declare(st, Head(items)), Tail(items))

\* the stores with at most n declarations drawn from a set of items
Stores(items, n) ==
  {declareAll(bareStore, seq) : seq \in UNION {[1..m -> items] : m \in 0..n}}

PageIdx == 1..Len(pageIds)

ItemsSym == [page : PageIdx, field : {"po", "ec", "eq", "dc"}, value : Targets]

ItemsSeq == [page : PageIdx, field : {"next", "prev"}, value : Targets]

ItemsPart == [page : PageIdx, field : {"ntpp", "tpp"}, value : Targets]

\* front matter that names the inverse fields; the schema passes it through
ItemsPassthrough ==
  [page : PageIdx, field : {"nttpi", "tppi", "ri"}, value : {a, https}]

\* [x](href)
Link(href) == <<"[", "x", "]", "(">> \o href \o <<")">>

ItemsRef == [page : PageIdx, field : {"body"}, value : {Link(<<"/">> \o t) : t \in Targets}]

\* the forms in which a body names a page, and the targets that are skipped
Hrefs ==
  UNION {{<<"/">> \o t, <<".", "/">> \o t, t, t \o <<"/">>} : t \in Targets \ {z}}
  \cup {<<"/">>, <<"/">> \o z, <<"#">> \o a,
        <<"h", "t", "t", "p", "s", ":", "/", "/">> \o a,
        <<"m", "a", "i", "l", "t", "o", ":">> \o a}

\* links, text, and a link that lacks its closing parenthesis
Fragments ==
  {Link(h) : h \in Hrefs}
  \cup {<<"x", " ">>, <<"[", "x", "]", "(">> \o <<"/">> \o a, <<"[", "]", "(", "/", "a", ")">>}

ItemsBody == [page : PageIdx, field : {"body"}, value : Fragments]

----------------------------------------------------------------------------
(* Relation Graph Builder *)

knownSlugs == {store[k].id : k \in 1..Len(store)}

emptyRelations ==
  [ntpp |-> <<>>, nttpi |-> <<>>, tpp |-> <<>>, tppi |-> <<>>,
   po |-> <<>>, ec |-> <<>>, eq |-> <<>>, dc |-> <<>>, r |-> <<>>, ri |-> <<>>]

\* variant: the membership test is inverted
addUniqueInverted(arr, value) == IF includes(arr, value) THEN Append(arr, value) ELSE arr

\* variant: the membership test looks at the last element only
addUniqueLast(arr, value) ==
  IF arr = <<>> \/ arr[Len(arr)] /= value THEN Append(arr, value) ELSE arr

\* variant: the value is pushed onto an empty list only
addUniqueFirst(arr, value) == IF arr = <<>> THEN <<value>> ELSE arr

\* variant: the value takes the place of the list
addUniqueReplacing(arr, value) == IF ~includes(arr, value) THEN <<value>> ELSE arr

addUnique(arr, value) == IF ~includes(arr, value) THEN Append(arr, value) ELSE arr

\* `if (data.f) rel.f = [...data.f]`
copyDeclared(data, field) == IF field \in DOMAIN data THEN data[field] ELSE <<>>

\* variant: the first pass also copies nttpi, tppi and ri from the front matter
firstPassRelationsInverse(page, known) ==
  [ntpp |-> copyDeclared(page.data, "ntpp"), nttpi |-> copyDeclared(page.data, "nttpi"),
   tpp |-> copyDeclared(page.data, "tpp"), tppi |-> copyDeclared(page.data, "tppi"),
   po |-> copyDeclared(page.data, "po"), ec |-> copyDeclared(page.data, "ec"),
   eq |-> copyDeclared(page.data, "eq"), dc |-> copyDeclared(page.data, "dc"),
   next |-> Get(page.data, "next"), prev |-> Get(page.data, "prev"),
   r |-> extractLinkSlugs(IF Truthy(Get(page, "body")) THEN page.body ELSE <<>>,
                          page.id, known),
   ri |-> copyDeclared(page.data, "ri")]

\* the PageRelations that the first pass stores for a page
firstPassRelations(page, known) ==
  [ntpp |-> copyDeclared(page.data, "ntpp"), nttpi |-> emptyRelations.nttpi,
   tpp |-> copyDeclared(page.data, "tpp"), tppi |-> emptyRelations.tppi,
   po |-> copyDeclared(page.data, "po"), ec |-> copyDeclared(page.data, "ec"),
   eq |-> copyDeclared(page.data, "eq"), dc |-> copyDeclared(page.data, "dc"),
   next |-> Get(page.data, "next"), prev |-> Get(page.data, "prev"),
   r |-> extractLinkSlugs(IF Truthy(Get(page, "body")) THEN page.body ELSE <<>>,
                          page.id, known),
   ri |-> emptyRelations.ri]

\* one iteration of the first loop of buildRelationsGraph
Pass1 ==
  /\ pc = "pass1"
  /\ cursor <= Len(store)
  /\ LET page == store[cursor] IN
       /\ pages' = With(pages, page.id, [slug |-> page.id, title |-> page.data.title])
       /\ graph' = With(graph, page.id, firstPassRelations(page, knownSlugs))
  /\ IF cursor = Len(store)
     THEN pc' = "pass2" /\ cursor' = 1
     ELSE pc' = pc /\ cursor' = cursor + 1
  /\ UNCHANGED <<store, full, crumbs, walk, sub, backlinks>>

\* variant: a target that the graph lacks gets an entry of its own
RECURSIVE inferListCreating(_, _, _, _, _)
inferListCreating(g, slug, from, to, k) ==
  IF k > Len(g[slug][from]) THEN g
  ELSE LET target == g[slug][from][k]
           targetRel == IF target \in DOMAIN g THEN g[target]
                        ELSE emptyRelations @@ [next |-> undefined, prev |-> undefined]
       IN inferListCreating(With(g, target, [targetRel EXCEPT ![to] = addUnique(@, slug)]),
                            slug, from, to, k + 1)

\* `for (const target of rel[from]) { const targetRel = graph.get(target);
\*  if (targetRel) addUnique(targetRel[to], slug) }`, from the k-th target;
\* the list is read from the graph as the loop goes
RECURSIVE inferList(_, _, _, _, _)
inferList(g, slug, from, to, k) ==
  IF k > Len(g[slug][from]) THEN g
  ELSE LET target == g[slug][from][k] IN
       inferList(IF target \in DOMAIN g
                 THEN [g EXCEPT ![target][to] = addUnique(g[target][to], slug)]
                 ELSE g,
                 slug, from, to, k + 1)

\* variant: the pointer of the other page is written even when it is set
inferPointerOverwrite(g, slug, from, to) ==
  LET other == g[slug][from] IN
  IF Truthy(other) /\ other \in DOMAIN g
  THEN [g EXCEPT ![other][to] = slug]
  ELSE g

\* `if (rel[from]) { const other = graph.get(rel[from]);
\*  if (other && !other[to]) other[to] = slug }`
inferPointer(g, slug, from, to) ==
  LET other == g[slug][from] IN
  IF Truthy(other) /\ other \in DOMAIN g /\ ~Truthy(g[other][to])
  THEN [g EXCEPT ![other][to] = slug]
  ELSE g

\* variant: the block of the dc relation is missing
inferFromSkipDc(g, slug) ==
  LET g1 == inferList(g, slug, "ntpp", "nttpi", 1)
      g2 == inferList(g1, slug, "tpp", "tppi", 1)
      g3 == inferList(g2, slug, "po", "po", 1)
      g4 == inferList(g3, slug, "ec", "ec", 1)
      g5 == inferList(g4, slug, "eq", "eq", 1)
      g7 == inferPointer(g5, slug, "next", "prev")
      g8 == inferPointer(g7, slug, "prev", "next")
  IN inferList(g8, slug, "r", "ri", 1)

\* the body of the second loop of buildRelationsGraph for one page
inferFrom(g, slug) ==
  LET g1 == inferList(g, slug, "ntpp", "nttpi", 1)
      g2 == inferList(g1, slug, "tpp", "tppi", 1)
      g3 == inferList(g2, slug, "po", "po", 1)
      g4 == inferList(g3, slug, "ec", "ec", 1)
      g5 == inferList(g4, slug, "eq", "eq", 1)
      g6 == inferList(g5, slug, "dc", "dc", 1)
      g7 == inferPointer(g6, slug, "next", "prev")
      g8 == inferPointer(g7, slug, "prev", "next")
  IN inferList(g8, slug, "r", "ri", 1)

\* the keys of graph in iteration order
graphKeys == [k \in 1..Len(store) |-> store[k].id]

\* the whole second loop of buildRelationsGraph, from the k-th key
RECURSIVE secondPass(_, _, _)
secondPass(g, keys, k) ==
  IF k > Len(keys) THEN g ELSE secondPass(inferFrom(g, keys[k]), keys, k + 1)

\* one iteration of the second loop of buildRelationsGraph
Pass2 ==
  /\ pc = "pass2"
  /\ cursor <= Len(graphKeys)
  /\ graph' = inferFrom(graph, graphKeys[cursor])
  /\ IF cursor = Len(graphKeys)
     THEN pc' = "done" /\ cursor' = 1
     ELSE pc' = pc /\ cursor' = cursor + 1
  /\ UNCHANGED <<store, pages, full, crumbs, walk, sub, backlinks>>

----------------------------------------------------------------------------
(* Graph View Builder: the full view *)

\* the edges `for (const target of targets) edges.push({source, target, type})`
\* appends
directedEdges(slug, targets, type) ==
  [k \in 1..Len(targets) |-> [source |-> slug, target |-> targets[k], type |-> type]]

\* [slug, target].sort().join('::') + '::' + type
edgeKey(slug, target, type) ==
  LET pair == sortPair(slug, target)
  IN pair[1] \o sep \o pair[2] \o sep \o typeName(type)

\* the loop over the targets of one symmetric type, from the k-th target;
\* acc holds edges and seen
RECURSIVE symmetricEdges(_, _, _, _, _)
symmetricEdges(acc, slug, targets, type, k) ==
  IF k > Len(targets) THEN acc
  ELSE LET key == edgeKey(slug, targets[k], type) IN
       symmetricEdges(
         IF key \in acc.seen THEN acc
         ELSE [edges |-> Append(acc.edges,
                                [source |-> slug, target |-> targets[k], type |-> type]),
               seen |-> acc.seen \cup {key}],
         slug, targets, type, k + 1)

\* `if (rel.next) { ... }`: the next edge, deduplicated with prev
nextEdge(acc, slug, rel) ==
  IF Truthy(rel.next) /\ edgeKey(slug, rel.next, "next") \notin acc.seen
  THEN [edges |-> Append(acc.edges,
                         [source |-> slug, target |-> rel.next, type |-> "next"]),
        seen |-> acc.seen \cup {edgeKey(slug, rel.next, "next")}]
  ELSE acc

\* (rel.next ? 1 : 0)
present(v) == IF Truthy(v) THEN 1 ELSE 0

connectionCount(rel) ==
  Len(rel.ntpp) + Len(rel.nttpi) + Len(rel.tpp) + Len(rel.tppi)
  + Len(rel.po) + Len(rel.ec) + Len(rel.eq) + Len(rel.dc)
  + present(rel.next) + present(rel.prev) + Len(rel.r) + Len(rel.ri)

\* the body of the loop of buildGraphData for one entry of graph
viewOf(acc, g, info, slug) ==
  IF slug \notin DOMAIN info THEN acc
  ELSE LET rel == g[slug]
           e1 == [edges |-> acc.edges \o directedEdges(slug, rel.ntpp, "ntpp")
                                      \o directedEdges(slug, rel.tpp, "tpp"),
                  seen |-> acc.seen]
           e2 == symmetricEdges(e1, slug, rel.po, "po", 1)
           e3 == symmetricEdges(e2, slug, rel.ec, "ec", 1)
           e4 == symmetricEdges(e3, slug, rel.eq, "eq", 1)
           e5 == symmetricEdges(e4, slug, rel.dc, "dc", 1)
           e6 == nextEdge(e5, slug, rel)
       IN [nodes |-> Append(acc.nodes,
                            [id |-> slug, title |-> info[slug].title,
                             connections |-> connectionCount(rel)]),
           edges |-> e6.edges \o directedEdges(slug, rel.r, "r"),
           seen |-> e6.seen]

RECURSIVE viewLoop(_, _, _, _, _)
viewLoop(acc, g, info, keys, k) ==
  IF k > Len(keys) THEN acc
  ELSE viewLoop(viewOf(acc, g, info, keys[k]), g, info, keys, k + 1)

buildGraphData(g, info, keys) ==
  LET acc == viewLoop([nodes |-> <<>>, edges |-> <<>>, seen |-> {}], g, info, keys, 1)
  IN [nodes |-> acc.nodes, edges |-> acc.edges]

\* a call of buildGraphData on the completed graph
BuildGraphData ==
  /\ pc = "done"
  /\ ~full.built
  /\ full' = [built |-> TRUE, data |-> buildGraphData(graph, pages, graphKeys)]
  /\ UNCHANGED <<store, graph, pages, pc, cursor, crumbs, walk, sub, backlinks>>

----------------------------------------------------------------------------
(* Graph View Builder: the subgraph view *)

EdgeTypes == {"ntpp", "tpp", "po", "ec", "eq", "dc", "next", "r"}

\* full.edges.filter(e => typesSet.has(e.type))
relevantEdgesOf(edges, typesSet) == SelectSeq(edges, LAMBDA e : e.type \in typesSet)

\* variant: an edge is followed from its source to its target only
nextFrontierDirected(frontier, included, edges) ==
  {edges[k].target : k \in {j \in 1..Len(edges) :
     edges[j].source \in frontier /\ edges[j].target \notin included}}

\* the slugs that the two inner loops add to nextFrontier
nextFrontier(frontier, included, edges) ==
  {edges[k].target : k \in {j \in 1..Len(edges) :
     edges[j].source \in frontier /\ edges[j].target \notin included}}
  \cup
  {edges[k].source : k \in {j \in 1..Len(edges) :
     edges[j].target \in frontier /\ edges[j].source \notin included}}

\* variant: the last frontier alone is returned
RECURSIVE breadthFirstFrontier(_, _, _, _, _)
breadthFirstFrontier(d, depth, frontier, included, edges) ==
  IF ~(d <= depth) THEN included
  ELSE IF d = depth THEN frontier
  ELSE breadthFirstFrontier(d + 1, depth,
                            nextFrontier(frontier, included \cup frontier, edges),
                            included \cup frontier, edges)

\* `for (let d = 0; d <= opts.depth; d++)` from d on: includedSlugs at its end
RECURSIVE breadthFirst(_, _, _, _, _)
breadthFirst(d, depth, frontier, included, edges) ==
  IF ~(d <= depth) THEN included
  ELSE IF d = depth THEN included \cup frontier
  ELSE breadthFirst(d + 1, depth,
                    nextFrontier(frontier, included \cup frontier, edges),
                    included \cup frontier, edges)

\* includedSlugs when the loop has ended
includedSlugsOf(view, rootSlug, opts) ==
  breadthFirst(0, opts.depth, {rootSlug}, {},
               relevantEdgesOf(view.edges, opts.relationTypes))

\* variant: an edge is kept when its source is included
edgeIncludedBySource(e, included) == e.source \in included

\* e => includedSlugs.has(e.source) && includedSlugs.has(e.target)
edgeIncluded(e, included) == e.source \in included /\ e.target \in included

\* what buildSubgraphData does once it holds the full view
subgraphOf(view, rootSlug, opts) ==
  LET included == includedSlugsOf(view, rootSlug, opts)
  IN [nodes |-> SelectSeq(view.nodes, LAMBDA n : n.id \in included),
      edges |-> SelectSeq(relevantEdgesOf(view.edges, opts.relationTypes),
                          LAMBDA e : edgeIncluded(e, included))]

buildSubgraphData(g, info, keys, rootSlug, opts) ==
  subgraphOf(buildGraphData(g, info, keys), rootSlug, opts)

\* the sets of relation kinds that are asked for
TypeSets == {{}, {"eq"}, {"ntpp"}, EdgeTypes}

\* a call of buildSubgraphData on the completed graph
BuildSubgraphData ==
  /\ pc = "done"
  /\ ~sub.called
  /\ LET view == buildGraphData(graph, pages, graphKeys) IN
     \E rootSlug \in Targets, types \in TypeSets, depth \in 0..MaxDepth :
       LET opts == [relationTypes |-> types, depth |-> depth]
       IN sub' = [called |-> TRUE, root |-> rootSlug, types |-> types, depth |-> depth,
                  included |-> includedSlugsOf(view, rootSlug, opts),
                  data |-> buildSubgraphData(graph, pages, graphKeys, rootSlug, opts)]
  /\ UNCHANGED <<store, graph, pages, pc, cursor, full, crumbs, walk, backlinks>>

----------------------------------------------------------------------------
(* Breadcrumb Resolver *)

\* arr[0]
first(arr) == IF Len(arr) > 0 THEN arr[1] ELSE undefined

\* variant: tpp is preferred to ntpp
parentOfTppFirst(rel) ==
  IF first(rel.tpp) /= undefined THEN first(rel.tpp) ELSE first(rel.ntpp)

\* rel.ntpp[0] ?? rel.tpp[0]
parentOf(rel) == IF first(rel.ntpp) /= undefined THEN first(rel.ntpp) ELSE first(rel.tpp)

\* the while loop of getBreadcrumbs
RECURSIVE walkUp(_, _, _, _, _)
walkUp(current, visited, breadcrumbs, g, info) ==
  IF ~(Truthy(current) /\ current \notin visited) THEN breadcrumbs
  ELSE LET found == IF current \in DOMAIN info
                    THEN <<info[current]>> \o breadcrumbs
                    ELSE breadcrumbs
       IN IF current \notin DOMAIN g THEN found
          ELSE walkUp(parentOf(g[current]), visited \cup {current}, found, g, info)

getBreadcrumbs(slug, g, info) == walkUp(slug, {}, <<>>, g, info)

\* a call of getBreadcrumbs on the completed graph
GetBreadcrumbs ==
  /\ pc = "done"
  /\ \E slug \in Targets :
       crumbs' = [called |-> TRUE, slug |-> slug,
                  result |-> getBreadcrumbs(slug, graph, pages)]
  /\ UNCHANGED <<store, graph, pages, pc, cursor, full, walk, sub, backlinks>>

\* the loop of getBreadcrumbs, one iteration at a time

\* variant: the loop goes on as long as there is a current slug
walkContinuesUnguarded(w) == Truthy(w.current)

\* the condition of the while loop
walkContinues(w) == Truthy(w.current) /\ w.current \notin w.visited

\* the body of the while loop; the phase is "returned" after the break
walkIteration(w, g, info) ==
  LET found == IF w.current \in DOMAIN info
               THEN <<info[w.current]>> \o w.breadcrumbs
               ELSE w.breadcrumbs
  IN IF w.current \notin DOMAIN g
     THEN [w EXCEPT !.visited = w.visited \cup {w.current}, !.breadcrumbs = found,
                    !.phase = "returned"]
     ELSE [w EXCEPT !.visited = w.visited \cup {w.current}, !.breadcrumbs = found,
                    !.current = parentOf(g[w.current])]

\* getBreadcrumbs is entered on the completed graph
BreadcrumbsCall ==
  /\ pc = "done"
  /\ walk.phase /= "walking"
  /\ \E slug \in Targets :
       walk' = [phase |-> "walking", slug |-> slug, current |-> slug,
                visited |-> {}, breadcrumbs |-> <<>>]
  /\ UNCHANGED <<store, graph, pages, pc, cursor, full, crumbs, sub, backlinks>>

\* the loop condition is tested and, when it holds, the body is run
BreadcrumbsIterate ==
  /\ walk.phase = "walking"
  /\ walk' = IF walkContinues(walk)
             THEN walkIteration(walk, graph, pages)
             ELSE [walk EXCEPT !.phase = "returned"]
  /\ UNCHANGED <<store, graph, pages, pc, cursor, full, crumbs, sub, backlinks>>

----------------------------------------------------------------------------
(* The backlinks route: GET of pages/backlinks.json.ts *)

\* `page.id === 'index' ? '/' : `/${page.id}``
pathOf(id) == IF id = index THEN <<"/">> ELSE <<"/">> \o id

\* the record after the first loop: an empty list at the path of every page
initialBacklinks ==
  [path \in {pathOf(store[k].id) : k \in 1..Len(store)} |-> <<>>]

\* the test that skips external links and anchors
backlinkSkips(href) ==
  \/ startsWith(href, <<"h", "t", "t", "p">>)
  \/ startsWith(href, <<"#">>)
  \/ startsWith(href, <<"m", "a", "i", "l", "t", "o", ":">>)

\* the normalisation of the target path
backlinkTargetPath(href) ==
  LET p1 == IF startsWith(href, <<".", "/">>) THEN sliceFrom1(href) ELSE href
      p2 == IF ~startsWith(p1, <<"/">>) THEN <<"/">> \o p1 ELSE p1
  IN IF endsWith(p2, <<"/">>) /\ p2 /= <<"/">> THEN sliceDropLast(p2) ELSE p2

\* `backlinks[targetPath] && targetPath !== sourcePath` and `!exists`
backlinkAdded(bl, targetPath, sourcePath) ==
  /\ targetPath \in DOMAIN bl
  /\ targetPath /= sourcePath
  /\ ~\E k \in 1..Len(bl[targetPath]) : bl[targetPath][k].path = sourcePath

\* the while loop over the links of one body, from position `from`; the
\* regular expression is the one of the Link Extractor
RECURSIVE backlinksOfBody(_, _, _, _, _)
backlinksOfBody(body, from, sourcePath, sourceTitle, bl) ==
  LET match == exec(body, from)
      targetPath == backlinkTargetPath(match.href)
  IN IF match.end = 0 THEN bl
     ELSE IF backlinkSkips(match.href)
          THEN backlinksOfBody(body, match.end + 1, sourcePath, sourceTitle, bl)
     ELSE IF backlinkAdded(bl, targetPath, sourcePath)
          THEN backlinksOfBody(body, match.end + 1, sourcePath, sourceTitle,
                 [bl EXCEPT ![targetPath] =
                    Append(@, [path |-> sourcePath, title |-> sourceTitle])])
     ELSE backlinksOfBody(body, match.end + 1, sourcePath, sourceTitle, bl)

\* the second loop, from the k-th page
RECURSIVE backlinksOfPages(_, _, _)
backlinksOfPages(st, k, bl) ==
  IF k > Len(st) THEN bl
  ELSE LET page == st[k]
           body == IF Truthy(Get(page, "body")) THEN page.body ELSE <<>>
       IN backlinksOfPages(st, k + 1,
            backlinksOfBody(body, 1, pathOf(page.id), page.data.title, bl))

\* GET: the map that the response serialises
GET ==
  /\ ~backlinks.built
  /\ backlinks' = [built |-> TRUE, map |-> backlinksOfPages(store, 1, initialBacklinks)]
  /\ UNCHANGED <<store, graph, pages, pc, cursor, full, crumbs, walk, sub>>

----------------------------------------------------------------------------
(* Specifications *)

\* no call of buildSubgraphData has returned
noSubgraph ==
  [called |-> FALSE, root |-> <<>>, types |-> {}, depth |-> 0, included |-> {},
   data |-> [nodes |-> <<>>, edges |-> <<>>]]

\* the state when getCollection has returned the store st
Start(st) ==
  /\ store = st
  /\ graph = [k \in {} |-> emptyRelations]
  /\ pages = [k \in {} |-> [slug |-> k, title |-> k]]
  /\ pc = "pass1"
  /\ cursor = 1
  /\ full = [built |-> FALSE, data |-> [nodes |-> <<>>, edges |-> <<>>]]
  /\ crumbs = [called |-> FALSE, slug |-> <<>>, result |-> <<>>]
  /\ walk = [phase |-> "idle", slug |-> <<>>, current |-> undefined,
             visited |-> {}, breadcrumbs |-> <<>>]
  /\ sub = noSubgraph
  /\ backlinks = [built |-> FALSE, map |-> [k \in {} |-> <<>>]]

\* buildRelationsGraph
Build == Pass1 \/ Pass2

Next == Pass1 \/ Pass2 \/ BuildGraphData \/ GetBreadcrumbs

\* stores that declare symmetric relations
InitSym == \E st \in Stores(ItemsSym, MaxDecl) : Start(st)
SpecSym == InitSym /\ [][Next]_vars

\* stores that declare next and prev
InitSeq == \E st \in Stores(ItemsSeq, MaxDecl) : Start(st)
SpecSeq == InitSeq /\ [][Next]_vars

\* stores that declare containment, name inverse fields in the front matter
\* and link to each other
InitPart == \E st \in Stores(ItemsPart \cup ItemsPassthrough \cup ItemsRef, MaxDecl) : Start(st)
SpecPart == InitPart /\ [][Next]_vars

\* stores that declare containment, and the breadcrumb walk in steps
NextWalk == Pass1 \/ Pass2 \/ BreadcrumbsCall \/ BreadcrumbsIterate
InitWalk == \E st \in Stores(ItemsPart, MaxDecl) : Start(st)
SpecWalk == InitWalk /\ [][NextWalk]_vars

\* stores that declare an equality or a containment, and the subgraph view
\* of the completed graph
ItemsSub == [page : PageIdx, field : {"eq", "ntpp"}, value : Targets]
NextSub == Pass1 \/ Pass2 \/ BuildSubgraphData
InitSub == \E st \in Stores(ItemsSub, MaxDecl) : Start(st)
SpecSub == InitSub /\ [][NextSub]_vars

\* stores that declare containment alone, whose edges have a direction and
\* may close a cycle or leave a page apart, and the subgraph view
InitContained == \E st \in Stores(ItemsPart, MaxDecl) : Start(st)
SpecContained == InitContained /\ [][NextSub]_vars

\* stores of any one of the declaring families, and the construction alone
InitDeclared == InitSym \/ InitSeq \/ InitPart
SpecBuild == InitDeclared /\ [][Build]_vars

\* stores in which every page may link to the others or one page has a
\* body of any form, and the backlinks route beside the construction
NextBack == Pass1 \/ Pass2 \/ GET
InitBack ==
  \/ \E st \in Stores(ItemsRef, MaxDecl) : Start(st)
  \/ \E p \in PageIdx :
       \E st \in Stores([page : {p}, field : {"body"}, value : Fragments], MaxFrag) : Start(st)
SpecBack == InitBack /\ [][NextBack]_vars

\* stores in which one page has a body
InitBody ==
  \E p \in PageIdx :
    \E st \in Stores([page : {p}, field : {"body"}, value : Fragments], MaxFrag) : Start(st)
SpecBody == InitBody /\ [][Next]_vars

----------------------------------------------------------------------------
(* Vocabulary of the properties *)

Done == pc = "done"

\* the first pass has stored every page and the second has not begun
PassOneEnded == pc = "pass2" /\ cursor = 1

Members(arr) == {arr[k] : k \in 1..Len(arr)}

\* the declared list of page number p, empty when the field is absent
Declared(p, field) ==
  IF field \in DOMAIN store[p].data THEN store[p].data[field] ELSE <<>>

\* the declared pointer of page number p
DeclaredPointer(p, field) == Get(store[p].data, field)

SymmetricKinds == {"po", "ec", "eq", "dc"}

\* the edges of the full view between A and B, in either direction
EdgesBetween(A, B, type) ==
  {k \in 1..Len(full.data.edges) :
     /\ full.data.edges[k].type = type
     /\ {full.data.edges[k].source, full.data.edges[k].target} = {A, B}}

----------------------------------------------------------------------------
(* C1 *)

\* C1: when buildRelationsGraph has completed, for all pages A and B and
\* every kind in po, ec, eq, dc, B is in graph[A].kind exactly when A is
\* in graph[B].kind.
C1_Symmetry ==
  Done => \A A \in knownSlugs, B \in knownSlugs, kind \in SymmetricKinds :
            includes(graph[A][kind], B) <=> includes(graph[B][kind], A)

\* a relation that only the later page declares has reached the earlier one
C1_Witness ==
  /\ Done
  /\ \E p \in PageIdx, q \in PageIdx, kind \in SymmetricKinds :
       /\ q < p
       /\ store[q].id \in Members(Declared(p, kind))
       /\ store[p].id \notin Members(Declared(q, kind))
       /\ includes(graph[store[q].id][kind], store[p].id)

----------------------------------------------------------------------------
(* C2 *)

\* C2: when buildRelationsGraph has completed, for all pages A and B, B in
\* graph[A].ntpp implies A in graph[B].nttpi, B in graph[A].tpp implies A
\* in graph[B].tppi, and B in graph[A].r implies A in graph[B].ri, also
\* when B comes before A in page order.
C2_InverseComplete ==
  Done => \A A \in knownSlugs, B \in knownSlugs :
            /\ includes(graph[A].ntpp, B) => includes(graph[B].nttpi, A)
            /\ includes(graph[A].tpp, B) => includes(graph[B].tppi, A)
            /\ includes(graph[A].r, B) => includes(graph[B].ri, A)

\* a containment and a reference whose target comes earlier in page order
\* have both been inverted
C2_Witness ==
  /\ Done
  /\ \E p \in PageIdx, q \in PageIdx :
       /\ q < p
       /\ includes(graph[store[p].id].ntpp, store[q].id)
       /\ includes(graph[store[q].id].nttpi, store[p].id)
  /\ \E p \in PageIdx, q \in PageIdx :
       /\ q < p
       /\ includes(graph[store[p].id].r, store[q].id)
       /\ includes(graph[store[q].id].ri, store[p].id)

----------------------------------------------------------------------------
(* C3 *)

InverseOf(field) ==
  CASE field = "ntpp" -> "nttpi" [] field = "tpp" -> "tppi" [] field = "r" -> "ri"

\* C3: nttpi, tppi and ri are empty for every page at the end of pass 1,
\* and after pass 2 A is in an inverse set of B only if B is in the forward
\* set of A; front matter that names an inverse field puts nothing into it.
C3_DerivedOnly ==
  /\ PassOneEnded =>
       \A B \in knownSlugs :
         graph[B].nttpi = <<>> /\ graph[B].tppi = <<>> /\ graph[B].ri = <<>>
  /\ Done =>
       \A B \in knownSlugs, field \in {"ntpp", "tpp", "r"} :
         \A A \in Members(graph[B][InverseOf(field)]) :
           A \in knownSlugs /\ includes(graph[A][field], B)

\* a page names a page in an inverse field of its front matter, the graph
\* does not hold it there, and an inverse set has been derived
C3_Witness ==
  /\ Done
  /\ \E p \in PageIdx, inv \in {"nttpi", "tppi", "ri"} :
       /\ Declared(p, inv) /= <<>>
       /\ ~includes(graph[store[p].id][inv], Declared(p, inv)[1])
  /\ \E B \in knownSlugs : graph[B].nttpi /= <<>> \/ graph[B].tppi /= <<>>

----------------------------------------------------------------------------
(* C4 *)

\* the page number of a slug of the store
PageOf(slug) == CHOOSE p \in PageIdx : store[p].id = slug

\* B declares a pointer that is not A, and has kept it
KeptConflicting(B, field, A) ==
  /\ Truthy(DeclaredPointer(PageOf(B), field))
  /\ DeclaredPointer(PageOf(B), field) /= A
  /\ graph[B][field] = DeclaredPointer(PageOf(B), field)

\* C4: after construction, for all pages A and B, graph[A].next = B implies
\* graph[B].prev = A unless B declared a conflicting prev, which is kept,
\* and graph[A].prev = B implies graph[B].next = A unless B declared a
\* conflicting next; also when several pages declare the same target and
\* the target declares nothing.
C4_SequentialConsistency ==
  Done => \A A \in knownSlugs, B \in knownSlugs :
            /\ graph[A].next = B =>
                 graph[B].prev = A \/ KeptConflicting(B, "prev", A)
            /\ graph[A].prev = B =>
                 graph[B].next = A \/ KeptConflicting(B, "next", A)

----------------------------------------------------------------------------
(* C5 *)

\* no step changes a next or prev pointer that is set
PointersWrittenWhenUnset ==
  \A s \in DOMAIN graph, field \in {"next", "prev"} :
    Truthy(graph[s][field]) => graph'[s][field] = graph[s][field]

\* every page that the graph holds has the pointers it declares
DeclaredPointersKept ==
  \A p \in PageIdx, field \in {"next", "prev"} :
    (store[p].id \in DOMAIN graph /\ Truthy(DeclaredPointer(p, field)))
      => graph[store[p].id][field] = DeclaredPointer(p, field)

\* C5: a page's own declared next or prev is never replaced, whatever the
\* other pages declare and whatever the page order; inference writes a
\* pointer only when it is unset.
C5_DeclaredPointerKept ==
  []DeclaredPointersKept /\ [][PointersWrittenWhenUnset]_vars

\* a page names as its prev a page that declares another next
C5_Witness ==
  /\ Done
  /\ \E p \in PageIdx, q \in PageIdx :
       /\ p /= q
       /\ DeclaredPointer(q, "prev") = store[p].id
       /\ Truthy(DeclaredPointer(p, "next"))
       /\ DeclaredPointer(p, "next") /= store[q].id
       /\ graph[store[p].id].next = DeclaredPointer(p, "next")

----------------------------------------------------------------------------
(* C6 *)

\* the body of page number p as extractLinkSlugs receives it
BodyOf(p) == IF "body" \in DOMAIN store[p] THEN store[p].body ELSE <<>>

\* the link targets that the pattern finds in a body, in order
RECURSIVE MatchedHrefs(_, _)
MatchedHrefs(body, from) ==
  LET match == exec(body, from)
  IN IF match.end = 0 THEN <<>>
     ELSE <<match.href>> \o MatchedHrefs(body, match.end + 1)

NoDuplicates(arr) ==
  \A j \in 1..Len(arr), k \in 1..Len(arr) : j /= k => arr[j] /= arr[k]

\* C6: the sequence that extractLinkSlugs returns holds only known slugs,
\* never the source slug, whatever the form of the link, and no slug twice.
C6_ExtractSound ==
  \A p \in PageIdx :
    store[p].id \in DOMAIN graph =>
      LET r == graph[store[p].id].r
      IN /\ Members(r) \subseteq knownSlugs
         /\ store[p].id \notin Members(r)
         /\ NoDuplicates(r)

\* a body that links to its own page and to another one has been scanned
C6_Witness ==
  \E p \in PageIdx :
    /\ store[p].id \in DOMAIN graph
    /\ \E h \in Members(MatchedHrefs(BodyOf(p), 1)) :
         ~skipHref(h) /\ pathToSlug(normalizePath(h)) = store[p].id
    /\ graph[store[p].id].r /= <<>>

----------------------------------------------------------------------------
(* C7 *)

IsLetter(c) == CharCode(c) \in 97..122

\* the target begins with letters followed by ://
HasScheme(href) ==
  \E n \in 1..Len(href) :
    /\ n + 3 <= Len(href)
    /\ SubSeq(href, n + 1, n + 3) = <<":", "/", "/">>
    /\ \A j \in 1..n : IsLetter(href[j])

\* the targets that the Link Extractor is to skip
ToBeSkipped(href) ==
  \/ HasScheme(href)
  \/ startsWith(href, <<"#">>)
  \/ startsWith(href, <<"m", "a", "i", "l", "t", "o", ":">>)

\* the slugs of the targets that are not to be skipped and name a known page
\* other than the source, each once, at its first occurrence
RECURSIVE LinksToBeKept(_, _, _, _)
LinksToBeKept(hrefs, sourceSlug, known, out) ==
  IF hrefs = <<>> THEN out
  ELSE LET slug == pathToSlug(normalizePath(Head(hrefs)))
       IN LinksToBeKept(Tail(hrefs), sourceSlug, known,
            IF /\ ~ToBeSkipped(Head(hrefs))
               /\ slug \in known /\ slug /= sourceSlug /\ ~includes(out, slug)
            THEN Append(out, slug) ELSE out)

\* C7: a target is skipped only when it is an absolute external URL, an
\* anchor or a mailto link; every other target whose normalized slug names
\* a known page other than the source is in the output exactly once, at the
\* position of its first occurrence, also when the slug begins with http.
C7_ExtractComplete ==
  \A p \in PageIdx :
    store[p].id \in DOMAIN graph =>
      graph[store[p].id].r =
        LinksToBeKept(MatchedHrefs(BodyOf(p), 1), store[p].id, knownSlugs, <<>>)

----------------------------------------------------------------------------
(* C8 *)

\* C8: in the full view of a completed graph, for every kind in po, ec, eq,
\* dc and every pair of pages related by that kind, exactly one edge of that
\* kind joins the two, whoever declared the relation and whichever page is
\* iterated first.
C8_OneSymmetricEdge ==
  full.built =>
    \A A \in knownSlugs, B \in knownSlugs, kind \in SymmetricKinds :
      (includes(graph[A][kind], B) \/ includes(graph[B][kind], A))
        => Cardinality(EdgesBetween(A, B, kind)) = 1

\* two pages declare the same relation to each other and the view is built
C8_Witness ==
  /\ full.built
  /\ \E p \in PageIdx, q \in PageIdx, kind \in SymmetricKinds :
       /\ p /= q
       /\ store[q].id \in Members(Declared(p, kind))
       /\ store[p].id \in Members(Declared(q, kind))
       /\ Cardinality(EdgesBetween(store[p].id, store[q].id, kind)) = 1

----------------------------------------------------------------------------
(* C9 *)

\* C9: in the full view, for every pair of pages A, B for which the graph
\* holds graph[A].next = B, graph[B].next = A, graph[A].prev = B or
\* graph[B].prev = A, exactly one edge of type next joins the two.
C9_OneNextEdge ==
  full.built =>
    \A A \in knownSlugs, B \in knownSlugs :
      (\/ graph[A].next = B \/ graph[B].next = A
       \/ graph[A].prev = B \/ graph[B].prev = A)
        => Cardinality(EdgesBetween(A, B, "next")) = 1

----------------------------------------------------------------------------
(* C10 *)

\* P is the container of C that the walk follows: index 0 of ntpp, and
\* index 0 of tpp only when ntpp is empty
FollowedParent(P, C) ==
  /\ C \in DOMAIN graph
  /\ IF graph[C].ntpp /= <<>> THEN P = graph[C].ntpp[1]
     ELSE graph[C].tpp /= <<>> /\ P = graph[C].tpp[1]

\* C10: getBreadcrumbs returns the ancestry chain root-first and inclusive:
\* the last element is the page asked for, and of two adjacent elements the
\* first is ntpp[0] of the second, or tpp[0] when its ntpp is empty.
C10_Breadcrumbs ==
  crumbs.called =>
    LET res == crumbs.result
    IN /\ crumbs.slug \in knownSlugs =>
            Len(res) >= 1 /\ res[Len(res)] = pages[crumbs.slug]
       /\ \A k \in 1..Len(res) : res[k].slug \in knownSlugs /\ res[k] = pages[res[k].slug]
       /\ \A k \in 1..(Len(res) - 1) : FollowedParent(res[k].slug, res[k + 1].slug)

\* a chain of three pages has been walked from its leaf
C10_Witness ==
  /\ crumbs.called
  /\ crumbs.slug \in knownSlugs
  /\ Len(crumbs.result) = 3

----------------------------------------------------------------------------
(* C11 *)

\* the walk holds no page twice, no more pages than there are, and has
\* visited at most the pages and one slug that is no page; when it has
\* returned, the next parent is absent or was already visited
WalkBounded ==
  /\ NoDuplicates(walk.breadcrumbs)
  /\ Len(walk.breadcrumbs) <= Len(store)
  /\ Cardinality(walk.visited) <= Len(store) + 1
  /\ walk.phase = "returned" => ~Truthy(walk.current) \/ walk.current \in walk.visited

\* an iteration after which the walk goes on has visited one more slug
WalkProgress ==
  (walk.phase = "walking" /\ walk'.phase = "walking")
    => walk.visited \subseteq walk'.visited /\ walk'.visited /= walk.visited

\* C11: getBreadcrumbs terminates for every graph, cyclic and
\* self-referencing containment included: the walk halts when the next
\* parent is absent or was already visited, the result holds no page twice
\* and its length is at most the number of pages.
C11_WalkHalts == []WalkBounded /\ [][WalkProgress]_vars

\* a walk on a cycle of two pages has returned at the revisited page
C11_Witness ==
  /\ walk.phase = "returned"
  /\ Truthy(walk.current)
  /\ walk.current \in walk.visited
  /\ walk.current \in knownSlugs
  /\ Len(walk.breadcrumbs) = 2

----------------------------------------------------------------------------
(* C12 *)

\* the full view of the graph
FullView == buildGraphData(graph, pages, graphKeys)

\* the edges of the full view that have one of the kinds asked for
AskedEdges ==
  {e \in Members(FullView.edges) : e.type \in sub.types}

\* the slugs at most n hops from the root, an edge joining its two ends
RECURSIVE WithinHops(_)
WithinHops(n) ==
  IF n = 0 THEN {sub.root}
  ELSE LET near == WithinHops(n - 1)
       IN near \cup {e.target : e \in {f \in AskedEdges : f.source \in near}}
               \cup {e.source : e \in {f \in AskedEdges : f.target \in near}}

NodeIds(nodes) == {nodes[k].id : k \in 1..Len(nodes)}

\* C12: buildSubgraphData with hop bound N returns exactly the nodes whose
\* undirected distance from the root, over the full-view edges of the kinds
\* asked for, is at most N.
C12_WithinHops ==
  sub.called =>
    NodeIds(sub.data.nodes) = NodeIds(FullView.nodes) \cap WithinHops(sub.depth)

\* with hop bound 1 a chain of three pages is cut after its second page
C12_Witness ==
  /\ sub.called
  /\ sub.depth = 1
  /\ Len(sub.data.nodes) = 2
  /\ Len(sub.data.edges) = 1
  /\ NodeIds(FullView.nodes) \cap WithinHops(2) /= NodeIds(sub.data.nodes)

----------------------------------------------------------------------------
(* C13 *)

\* C13: buildSubgraphData with hop bound 0 returns only the root node and
\* no edges, for every root page, every set of kinds and every graph, also
\* when the root declares a relation to itself.
C13_DepthZero ==
  (sub.called /\ sub.depth = 0 /\ sub.root \in knownSlugs)
    => NodeIds(sub.data.nodes) = {sub.root}
       /\ Len(sub.data.nodes) = 1
       /\ sub.data.edges = <<>>

----------------------------------------------------------------------------
(* C14 *)

\* C14: every returned edge has a kind asked for and both ends visited,
\* every full-view edge of a kind asked for with both ends visited is
\* returned, and every returned node is visited.
C14_SubgraphClosed ==
  sub.called =>
    /\ \A e \in Members(sub.data.edges) :
         e.type \in sub.types /\ e.source \in sub.included /\ e.target \in sub.included
    /\ \A e \in AskedEdges :
         (e.source \in sub.included /\ e.target \in sub.included)
           => e \in Members(sub.data.edges)
    /\ NodeIds(sub.data.nodes) \subseteq sub.included

\* an edge is returned and an edge of a kind asked for is left out, one of
\* its ends not being visited
C14_Witness ==
  /\ sub.called
  /\ sub.data.edges /= <<>>
  /\ \E e \in AskedEdges : e.source \in sub.included /\ e.target \notin sub.included


----------------------------------------------------------------------------
(* C15 *)

PointerFields == {"next", "prev"}

InverseFields == {"nttpi", "tppi", "ri"}

\* a list or pointer of some page names the slug U
Named(U) ==
  \/ \E p \in PageIdx, kind \in SymmetricKinds \cup {"ntpp", "tpp"} :
       U \in Members(Declared(p, kind))
  \/ \E p \in PageIdx, f \in PointerFields : DeclaredPointer(p, f) = U

\* what the completed construction holds for unknown slugs
UnknownTargetDropped ==
  Done =>
    /\ DOMAIN graph = knownSlugs
    /\ DOMAIN pages = knownSlugs
    /\ \A U \in Targets \ knownSlugs, p \in PageIdx :
         LET rel == graph[store[p].id] IN
         /\ \A f \in InverseFields \cup {"r"} : ~includes(rel[f], U)
         /\ \A kind \in SymmetricKinds \cup {"ntpp", "tpp"} :
              includes(rel[kind], U) => U \in Members(Declared(p, kind))
         /\ \A f \in PointerFields : rel[f] = U => DeclaredPointer(p, f) = U

\* until it has completed, the construction is inside one of its two loops
\* with a page left to handle
BuildHasStep ==
  \/ pc = "pass1" /\ cursor \in 1..Len(store)
  \/ pc = "pass2" /\ cursor \in 1..Len(graphKeys) /\ graphKeys[cursor] \in DOMAIN graph
  \/ pc = "done"

\* C15: a declared target that names no page is a miss without an error:
\* the construction always has its next step until it has completed, the
\* keys of graph and of the lookup are then exactly the slugs of the Page
\* Store, and the unknown slug is in no inverse set of any page and in a
\* symmetric set or a pointer of a page only where that page declares it.
C15_UnknownTargetIgnored == BuildHasStep /\ UnknownTargetDropped

\* the construction has completed over a store that names the unknown slug
C15_Witness ==
  /\ Done
  /\ Named(z)
  /\ z \notin knownSlugs

----------------------------------------------------------------------------
(* C16 *)

\* the paths of the entries of the backlinks list at the path of page T
BacklinkPaths(T) ==
  [k \in 1..Len(backlinks.map[slugToPath(T)]) |-> backlinks.map[slugToPath(T)][k].path]

\* C16: when the graph and the backlinks map are both built, for all
\* distinct pages S and T the list at the path of T has an entry with the
\* path of S exactly when S is in graph[T].ri, every list is free of
\* duplicates and of its own page, and its paths are those of graph[T].ri in
\* the same order; also for a link written as /index.
C16_BacklinksMirror ==
  (Done /\ backlinks.built) =>
    \A T \in knownSlugs :
      /\ \A S \in knownSlugs \ {T} :
           includes(BacklinkPaths(T), slugToPath(S)) <=> includes(graph[T].ri, S)
      /\ NoDuplicates(BacklinkPaths(T))
      /\ ~includes(BacklinkPaths(T), slugToPath(T))
      /\ BacklinkPaths(T) = [k \in 1..Len(graph[T].ri) |-> slugToPath(graph[T].ri[k])]

----------------------------------------------------------------------------
(* C18 *)

DirectedKinds == {"ntpp", "tpp", "r"}

\* the edges of the full view from A to B of one type
EdgesFromTo(A, B, type) ==
  {k \in 1..Len(full.data.edges) :
     full.data.edges[k] = [source |-> A, target |-> B, type |-> type]}

\* C18: in the full view, for all pages A, targets B and each kind in ntpp,
\* tpp, r, there is exactly one edge from A to B of that kind when B is in
\* graph[A].kind and none otherwise, also when the front matter names B
\* more than once in one list.
C18_OneDirectedEdge ==
  full.built =>
    \A A \in knownSlugs, B \in Targets, kind \in DirectedKinds :
      Cardinality(EdgesFromTo(A, B, kind)) = IF includes(graph[A][kind], B) THEN 1 ELSE 0

----------------------------------------------------------------------------
(* C19 *)

RelationLists == {"ntpp", "nttpi", "tpp", "tppi", "po", "ec", "eq", "dc", "r", "ri"}

\* what an iteration of the second loop leaves as it is
PassTwoAdditive ==
  pc = "pass2" =>
    /\ DOMAIN graph' = DOMAIN graph
    /\ \A A \in DOMAIN graph :
         /\ \A f \in RelationLists : Members(graph[A][f]) \subseteq Members(graph'[A][f])
         /\ \A f \in DirectedKinds : graph'[A][f] = graph[A][f]
         /\ \A f \in PointerFields : Truthy(graph[A][f]) => graph'[A][f] = graph[A][f]

\* C19: every iteration of the second loop removes no slug from any relation
\* list of any page, leaves ntpp, tpp and r of every page as they are, and
\* neither changes nor clears a next or prev pointer that is set.
C19_PassTwoAdditive == [][PassTwoAdditive]_vars

\* the second loop has added to a list that it had already added to
C19_Witness ==
  /\ Done
  /\ \E A \in knownSlugs, f \in InverseFields \cup SymmetricKinds :
       \E j \in 1..Len(graph[A][f]), k \in 1..Len(graph[A][f]) :
         /\ j < k
         /\ \A p \in PageIdx : store[p].id = A =>
              /\ graph[A][f][j] \notin Members(Declared(p, f))
              /\ graph[A][f][k] \notin Members(Declared(p, f))

----------------------------------------------------------------------------
(* C20 *)

\* C20: the second loop of buildRelationsGraph, applied once more to the
\* graph that the completed construction holds, gives that graph: no list
\* and no next or prev pointer of any page changes.
C20_PassTwoIdempotent ==
  Done => secondPass(graph, graphKeys, 1) = graph

\* the second loop has written an inverse, a symmetric counterpart or a
\* pointer that no front matter declares, so that it has something to repeat
C20_Witness ==
  /\ Done
  /\ \E p \in PageIdx :
       LET rel == graph[store[p].id] IN
       \/ \E f \in InverseFields : rel[f] /= <<>>
       \/ \E f \in SymmetricKinds : Len(rel[f]) > Len(Declared(p, f))
       \/ \E f \in PointerFields : Truthy(rel[f]) /\ ~Truthy(DeclaredPointer(p, f))

----------------------------------------------------------------------------
(* C21 *)

\* the orders in which the second loop could go through the keys of graph
KeyOrders ==
  {[k \in 1..Len(graphKeys) |-> graphKeys[perm[k]]] :
     perm \in {f \in [1..Len(graphKeys) -> 1..Len(graphKeys)] :
                 \A j \in 1..Len(graphKeys), k \in 1..Len(graphKeys) :
                   j /= k => f[j] /= f[k]}}

InferredLists == {"nttpi", "tppi", "po", "ec", "eq", "dc", "ri"}

\* two graphs give every page the same members in every inferred list
SameMembers(g1, g2) ==
  /\ DOMAIN g1 = DOMAIN g2
  /\ \A A \in DOMAIN g1, f \in InferredLists : Members(g1[A][f]) = Members(g2[A][f])

\* C21: over the state that the first pass leaves, the second loop gives
\* every page the same members of nttpi, tppi, po, ec, eq, dc and ri in
\* whatever order it goes through the pages.
C21_OrderIndependent ==
  PassOneEnded =>
    \A order \in KeyOrders :
      SameMembers(secondPass(graph, order, 1), secondPass(graph, graphKeys, 1))

\* another order gives another graph: a list in another order or another
\* next or prev
C21_Witness ==
  /\ PassOneEnded
  /\ \E order \in KeyOrders :
       /\ secondPass(graph, order, 1) /= secondPass(graph, graphKeys, 1)
       /\ \E A \in DOMAIN graph, f \in InferredLists :
            secondPass(graph, order, 1)[A][f] /= secondPass(graph, graphKeys, 1)[A][f]

----------------------------------------------------------------------------
(* C22 *)

OtherPointer(field) == IF field = "next" THEN "prev" ELSE "next"

\* the numbers of the pages that declare B as their pointer `field`
Claimants(B, field) == {p \in PageIdx : DeclaredPointer(p, field) = B}

FirstClaimant(B, field) ==
  CHOOSE p \in Claimants(B, field) : \A q \in Claimants(B, field) : p <= q

\* the second loop has gone through page number p
Inferred(p) == Done \/ (pc = "pass2" /\ cursor > p)

\* C22: when two or more pages declare the same page B as their next and B
\* declares no prev, graph[B].prev is the first of them in page order from
\* the moment the second loop has gone through that page, through every
\* later claimant and after the construction; likewise for several pages
\* that declare the same prev and graph[B].next.
C22_FirstClaimantWins ==
  \A B \in knownSlugs, field \in PointerFields :
    (/\ Cardinality(Claimants(B, field)) >= 2
     /\ ~Truthy(DeclaredPointer(PageOf(B), OtherPointer(field)))
     /\ Inferred(FirstClaimant(B, field)))
    => graph[B][OtherPointer(field)] = store[FirstClaimant(B, field)].id

\* two pages have claimed a page that declares nothing, and the
\* construction has completed with the first of them as its pointer
C22_Witness ==
  /\ Done
  /\ \E B \in knownSlugs, field \in PointerFields :
       /\ Cardinality(Claimants(B, field)) >= 2
       /\ ~Truthy(DeclaredPointer(PageOf(B), OtherPointer(field)))
       /\ graph[B][OtherPointer(field)] = store[FirstClaimant(B, field)].id
       /\ \E q \in Claimants(B, field) : q > FirstClaimant(B, field)

----------------------------------------------------------------------------
(* C23 *)

\* every edge of a view has its source and its target among the nodes
EndsAreNodes(view) ==
  \A k \in 1..Len(view.edges) :
    /\ view.edges[k].source \in NodeIds(view.nodes)
    /\ view.edges[k].target \in NodeIds(view.nodes)

\* C23: every edge that buildGraphData emits and every edge that
\* buildSubgraphData returns has both its source and its target among the
\* nodes of the same result, also when a declared relation names a slug
\* that is no page.
C23_EdgeEndsAreNodes ==
  sub.called => EndsAreNodes(FullView) /\ EndsAreNodes(sub.data)

----------------------------------------------------------------------------
(* C24 *)

\* what buildSubgraphData returns for the root and the kinds of the call
\* when the hop bound is d and the full view is view
Projection(view, d) ==
  subgraphOf(view, sub.root, [relationTypes |-> sub.types, depth |-> d])

\* the slugs that the full view names: its nodes and the ends of its edges
SlugsOf(view) ==
  NodeIds(view.nodes)
  \cup {view.edges[k].source : k \in 1..Len(view.edges)}
  \cup {view.edges[k].target : k \in 1..Len(view.edges)}

Within(small, large) ==
  /\ Members(small.nodes) \subseteq Members(large.nodes)
  /\ Members(small.edges) \subseteq Members(large.edges)

\* C24: for every root, set of kinds and hop bound d, the nodes and edges
\* that buildSubgraphData returns are among those of the full view and
\* among those it returns for d + 1, and at the hop bound that equals the
\* number of slugs the full view names the result has stopped changing.
C24_MonotoneProjection ==
  sub.called =>
    LET view == FullView
        K == Cardinality(SlugsOf(view))
        atK == Projection(view, K)
    IN /\ sub.data = Projection(view, sub.depth)
       /\ Within(sub.data, view)
       /\ Within(sub.data, Projection(view, sub.depth + 1))
       /\ Projection(view, K + 1) = atK
       /\ Projection(view, K + 2) = atK

\* the hop before the last and one hop more have each brought a node
C24_Witness ==
  /\ sub.called
  /\ sub.depth >= 1
  /\ Len(Projection(FullView, sub.depth + 1).nodes) > Len(sub.data.nodes)
  /\ Len(sub.data.nodes) > Len(Projection(FullView, sub.depth - 1).nodes)

====
